---- MODULE Spec2Model ----
(***************************************************************************)
(* Model of dynamic-citations.js: the expansion of ambiguous Statutes at   *)
(* Large citations against the Legisworks ledger (explode) and the         *)
(* concurrent parallel-citation fetchers (add_parallel_citations).         *)
(***************************************************************************)
EXTENDS Integers, Sequences, FiniteSets, TLC

(***************************************************************************)
(* Bounds of the model.                                                    *)
(***************************************************************************)
MaxPage == 2
MaxLedger == 2
MaxExt == 2
MaxSubTypes == 2

(* The last Statutes at Large volume looked up in Legisworks (line 11).    *)
LegisworksMaxVolume == 64

(* First congress with public law numbering (line 295).                    *)
PublawMinCongress == 38

VARIABLES
  files,        \* the ledger directory: file stem (digits) -> parsed YAML body
  cite,         \* the citation handed to the exported function
  pc,           \* position of the exported call
  reads,        \* file stems handed to fs.readFileSync, in order
  result,       \* the list passed to the caller's callback
  callbacks,    \* number of times the caller's callback was invoked
  cite0,        \* the citation as it was when the call was made
  env,          \* the environment: its keys are the configured services
  tasks,        \* fetcher type -> position of that fetcher
  new_citations,\* the accumulator of add_parallel_citations
  returned,     \* fetcher type -> the list it passed to its callback
  writers,      \* field of the shared citation -> the fetchers that wrote it
  m,            \* the bill address matched by the landing-page response
  doc,          \* the MODS document handed to get_from_usgpo_mods
  requests,     \* the request.get calls of this call, in the order issued
  responses,    \* fetcher type -> what its last request came back with
  first         \* the earlier call on the same citation, once a second is made

fetchVars == <<env, tasks, new_citations, returned, writers, m, doc,
               requests, responses, first>>
vars == <<files, cite, pc, reads, result, callbacks, cite0,
          env, tasks, new_citations, returned, writers, m, doc,
          requests, responses, first>>

(***************************************************************************)
(* JavaScript values: a number, or a string of decimal digits.             *)
(***************************************************************************)
Num(n) == [number |-> n]
Str(s) == [string |-> s]
IsNum(v) == DOMAIN v = {"number"}

RECURSIVE Digits(_)
(* Number -> its decimal string, as by ""+n.                               *)
Digits(n) == IF n < 10 THEN <<n>> ELSE Append(Digits(n \div 10), n % 10)

RECURSIVE DigitsValue(_)
(* A string of decimal digits -> the number it denotes.                    *)
DigitsValue(s) ==
  IF s = <<>> THEN 0
  ELSE 10 * DigitsValue(SubSeq(s, 1, Len(s) - 1)) + s[Len(s)]

(* ""+v *)
StringOf(v) == IF IsNum(v) THEN Digits(v.number) ELSE v.string

(* The numeric conversion of the relational operators and of == .          *)
ToNumber(v) == IF IsNum(v) THEN v.number ELSE DigitsValue(v.string)

parseInt(v) == DigitsValue(StringOf(v))

(* a == b of JavaScript, for a string a: strings compare as text, a string *)
(* and a number compare numerically.                                       *)
LooseEq(a, b) ==
  IF IsNum(a) \/ IsNum(b) THEN ToNumber(a) = ToNumber(b)
  ELSE a.string = b.string

RECURSIVE Zeros(_)
Zeros(k) == IF k <= 0 THEN <<>> ELSE <<0>> \o Zeros(k - 1)

(* pad(n, width): left-pad the decimal text with zeros.                    *)
pad(n, width) ==
  LET s == StringOf(n)
  IN IF Len(s) >= width THEN s ELSE Zeros(width - Len(s)) \o s

(***************************************************************************)
(* Sequence helpers: Array.prototype.reverse.                              *)
(***************************************************************************)
Reverse(s) == [i \in 1..Len(s) |-> s[Len(s) + 1 - i]]

Undefined == "undefined"

(***************************************************************************)
(* The citation registry (./citation), as far as this file uses it.        *)
(***************************************************************************)
TypeName(type) ==
  CASE type = "stat" -> "U.S. Statutes at Large"
    [] type = "law" -> "U.S. Law"
    [] type = "us_bill" -> "U.S. Legislation"
    [] OTHER -> type

(* citator.id: the identity of a citation, from its defining fields.       *)
CitationId(type, citeobj) ==
  CASE type = "stat" -> <<"stat", StringOf(citeobj.volume), StringOf(citeobj.page)>>
    [] type = "law" -> <<"us-law", citeobj.type, citeobj.congress, citeobj.number>>
    [] type = "us_bill" -> <<"us_bill", citeobj.congress, citeobj.bill_type, citeobj.number>>
    [] OTHER -> <<type>>

Canonical(type, citeobj) ==
  CASE type = "stat" -> <<StringOf(citeobj.volume), "Stat.", StringOf(citeobj.page)>>
    [] type = "law" -> <<"Pub.L.", citeobj.congress, citeobj.number>>
    [] type = "us_bill" -> <<citeobj.bill_type, citeobj.number, citeobj.congress>>
    [] OTHER -> <<type>>

NoLinks == [k \in {} |-> k]
NoFiles == [k \in {} |-> k]

(* Citation.getLinksForCitation: the link templates of the type.           *)
getLinksForCitation(type, citeobj) == NoLinks

create_parallel_cite(type, citeobj) ==
  (type :> ([id |-> CitationId(type, citeobj),
             links |-> getLinksForCitation(type, citeobj)] @@ citeobj))
  @@ [type |-> type,
      type_name |-> TypeName(type),
      citation |-> Canonical(type, citeobj),
      title |-> IF "title" \in DOMAIN citeobj THEN citeobj.title ELSE Undefined]

(***************************************************************************)
(* get_from_legisworks                                                     *)
(***************************************************************************)
LedgerPath(volume) == pad(volume, 3)

(* The filter of the body.forEach of get_from_legisworks.                  *)
IsMatch(item, c) ==
  /\ LooseEq(Str(Digits(item.volume)), c.stat.volume)
  /\ \/ LooseEq(Str(Digits(item.page)), c.stat.page)
     \/ /\ item.npages # 0
        /\ parseInt(c.stat.page) >= item.page
        /\ parseInt(c.stat.page) < item.page + item.npages

RECURSIVE LegisworksMatches(_, _)
(* matches: the matching items, in the order of the file.                  *)
LegisworksMatches(body, c) ==
  IF body = <<>> THEN <<>>
  ELSE (IF IsMatch(Head(body), c) THEN <<Head(body)>> ELSE <<>>)
       \o LegisworksMatches(Tail(body), c)

(* item.title || item.topic *)
TitleOrTopic(item) == IF item.title # "" THEN item.title ELSE item.topic

(* Variants of the test below: an off-by-one in either direction.          *)
IsAmbiguous_MoreThanTwo(nmatches) == nmatches > 2
IsAmbiguous_AnyMatch(nmatches) == nmatches >= 1

(* matches.length > 1, evaluated inside the map over the matched items.    *)
IsAmbiguous(nmatches) == nmatches > 1

LegisworksLink(item, is_start_page) ==
  [source |-> [name |-> "Legisworks",
               abbreviation |-> "Legisworks",
               authoritative |-> FALSE,
               note |-> IF is_start_page THEN Undefined
                        ELSE <<"internal page of statute beginning on page", item.page>>],
   pdf |-> <<item.volume, item.file>>]

(* Variant: the kind of act not looked at.                                 *)
HasPublaw_AnyType(item) == item.congress >= PublawMinCongress

(* if (item.congress >= 38 && item.type == "publaw")                       *)
HasPublaw(item) == item.congress >= PublawMinCongress /\ item.type = "publaw"

(* The candidate built for one matched ledger entry.                       *)
Candidate(item, c, nmatches) ==
  LET c0 == create_parallel_cite("stat", [volume |-> c.stat.volume, page |-> c.stat.page])
      is_start_page == LooseEq(Str(Digits(item.page)), c.stat.page)
      stat == [c0.stat EXCEPT !.links =
                 ("legisworks" :> LegisworksLink(item, is_start_page)) @@ @]
      c1 == [c0 EXCEPT !.title = TitleOrTopic(item),
                       !.citation = <<Digits(item.volume), "Stat.", Digits(item.page)>>,
                       !.stat = stat]
      c2 == IF IsAmbiguous(nmatches)
            THEN ("disambiguation" :> item.citation) @@ c1
            ELSE c1
      cc == [create_parallel_cite("law", [congress |-> item.congress,
                                          type |-> "public",
                                          number |-> item.number])
               EXCEPT !.title = TitleOrTopic(item)]
  IN IF HasPublaw(item) THEN ("parallel_citations" :> <<cc>>) @@ c2 ELSE c2

(* Variant: the candidates handed back in the order of the file.           *)
OrderMatches_FileOrder(s) == s

(* The order in which the candidates are handed back: matches.reverse().   *)
OrderMatches(s) == Reverse(s)

get_from_legisworks(body, c) ==
  LET matches == LegisworksMatches(body, c)
      mapped == [i \in 1..Len(matches) |-> Candidate(matches[i], c, Len(matches))]
  IN OrderMatches(mapped)

(***************************************************************************)
(* The inputs: ledger files and citations.                                 *)
(***************************************************************************)
(* Rows of the ledger file of volume v differ in the kind of act they      *)
(* record.                                                                 *)
EntryKinds(v) ==
  { [volume |-> v, type |-> "publaw", congress |-> PublawMinCongress,
     number |-> 1, title |-> "An Act", topic |-> "", citation |-> "Chapter 1"],
    [volume |-> v, type |-> "publaw", congress |-> PublawMinCongress - 1,
     number |-> 2, title |-> "", topic |-> "Relief", citation |-> "Chapter 2"],
    [volume |-> v, type |-> "private", congress |-> PublawMinCongress,
     number |-> 3, title |-> "A Private Act", topic |-> "", citation |-> "Private 3"] }

(* A row that names another volume than its file.                          *)
StrayKind(v) ==
  [volume |-> v - 1, type |-> "publaw", congress |-> PublawMinCongress,
   number |-> 4, title |-> "Another Volume", topic |-> "", citation |-> "Chapter 4"]

EntryOf(k, p, n) ==
  [volume |-> k.volume, page |-> p, npages |-> n, type |-> k.type,
   congress |-> k.congress, number |-> k.number, title |-> k.title,
   topic |-> k.topic, file |-> <<k.volume, p>>, citation |-> k.citation]

(* A row has no page count, covers its first page only, or reaches to the  *)
(* last page of the model.                                                 *)
Entries(v) ==
  { EntryOf(k, p, n) : k \in EntryKinds(v), p \in 1..MaxPage, n \in {0, 1} }
  \cup { EntryOf(k, p, MaxPage + 1 - p) : k \in EntryKinds(v), p \in 1..(MaxPage - 1) }
  \cup { EntryOf(StrayKind(v), p, MaxPage) : p \in 1..MaxPage }

(* The sequences over S of length n at most.                               *)
SeqsUpTo(S, n) == UNION {[1..k -> S] : k \in 0..n}

Ledgers(v) == SeqsUpTo(Entries(v), MaxLedger)

(* The page of a citation: a string of digits, possibly zero-padded, or a  *)
(* number.                                                                 *)
CitePages ==
  {Str(Digits(p)) : p \in 1..MaxPage}
    \cup {Str(<<0>> \o Digits(MaxPage)), Num(MaxPage)}

StatCites ==
  { [type |-> "stat", stat |-> [volume |-> Str(Digits(LegisworksMaxVolume)), page |-> p]] :
      p \in CitePages }
  \cup { [type |-> "stat", stat |-> [volume |-> v, page |-> Str(<<1>>)]] :
      v \in {Num(LegisworksMaxVolume), Str(Digits(LegisworksMaxVolume + 1))} }

OtherCites ==
  { [type |-> "law", law |-> [congress |-> 111, type |-> "public", number |-> 5]] }

ExplodeCites == StatCites \cup OtherCites

(* The fetchers table, in the order of its keys.                           *)
FetcherOrder == <<"stat", "law", "usc", "cfr", "fedreg", "reporter">>
FetcherTypes == {FetcherOrder[i] : i \in 1..Len(FetcherOrder)}

(* The fields of the shared citation that fetchers assign or delete.       *)
CiteFields ==
  {"title", "type_name", "citation", "usc.links", "law.links.legisworks",
   "law.links.govtrack", "reporter.links.courtlistener"}

NoMatch == [matched |-> FALSE]
NoDoc == <<>>
NoResponse == [kind |-> "none"]
NoRun == [called |-> FALSE]

(* The state of the fetchers while explode or the MODS scan runs alone.    *)
FetchersIdle ==
  /\ env = [k \in {} |-> k]
  /\ tasks = [t \in FetcherTypes |-> "pending"]
  /\ new_citations = <<>>
  /\ returned = [t \in FetcherTypes |-> <<>>]
  /\ writers = [f \in CiteFields |-> {}]
  /\ m = NoMatch
  /\ requests = <<>>
  /\ responses = [t \in FetcherTypes |-> NoResponse]
  /\ first = NoRun

(***************************************************************************)
(* exports.explode                                                         *)
(***************************************************************************)
(* The volume whose ledger file the directory holds for a citation.       *)
FileVolume(c) ==
  IF "stat" \in DOMAIN c THEN c.stat.volume ELSE Num(LegisworksMaxVolume)

InitExplode ==
  /\ cite \in ExplodeCites
  /\ cite0 = cite
  /\ \/ files = NoFiles
     \/ \E body \in Ledgers(ToNumber(FileVolume(cite))) :
          files = (LedgerPath(FileVolume(cite)) :> body)
  /\ pc = "start"
  /\ reads = <<>>
  /\ result = <<>>
  /\ callbacks = 0
  /\ FetchersIdle
  /\ doc = NoDoc

(* Variant: the volume limit left out.                                     *)
UsesLegisworks_AnyVolume(c) == "stat" \in DOMAIN c

UsesLegisworks(c) ==
  "stat" \in DOMAIN c /\ ToNumber(c.stat.volume) <= LegisworksMaxVolume

(* explode on an early Statutes at Large citation whose ledger file is     *)
(* there: the candidates of get_from_legisworks go to the callback.        *)
ExplodeLegisworks ==
  /\ pc = "start"
  /\ UsesLegisworks(cite)
  /\ LedgerPath(cite.stat.volume) \in DOMAIN files
  /\ reads' = Append(reads, LedgerPath(cite.stat.volume))
  /\ result' = get_from_legisworks(files[LedgerPath(cite.stat.volume)], cite)
  /\ callbacks' = callbacks + 1
  /\ pc' = "returned"
  /\ UNCHANGED <<files, cite, cite0>>
  /\ UNCHANGED fetchVars

(* Variant: the missing file taken for an empty ledger.                    *)
ExplodeDataNotFound_Swallowed ==
  /\ pc = "start"
  /\ UsesLegisworks(cite)
  /\ LedgerPath(cite.stat.volume) \notin DOMAIN files
  /\ reads' = Append(reads, LedgerPath(cite.stat.volume))
  /\ result' = <<>>
  /\ callbacks' = callbacks + 1
  /\ pc' = "returned"
  /\ UNCHANGED <<files, cite, cite0>>
  /\ UNCHANGED fetchVars

(* fs.readFileSync throws on a missing file: the exception leaves explode. *)
ExplodeDataNotFound ==
  /\ pc = "start"
  /\ UsesLegisworks(cite)
  /\ LedgerPath(cite.stat.volume) \notin DOMAIN files
  /\ reads' = Append(reads, LedgerPath(cite.stat.volume))
  /\ pc' = "thrown"
  /\ UNCHANGED <<files, cite, cite0, result, callbacks>>
  /\ UNCHANGED fetchVars

(* Every other citation is handed back as it is.                           *)
ExplodeOther ==
  /\ pc = "start"
  /\ ~UsesLegisworks(cite)
  /\ result' = <<cite>>
  /\ callbacks' = callbacks + 1
  /\ pc' = "returned"
  /\ UNCHANGED <<files, cite, cite0, reads>>
  /\ UNCHANGED fetchVars

NextExplode == ExplodeLegisworks \/ ExplodeDataNotFound \/ ExplodeOther

SpecExplode == InitExplode /\ [][NextExplode]_vars

(***************************************************************************)
(* Properties of explode.                                                  *)
(***************************************************************************)
IsStat(c) == "stat" \in DOMAIN c
EarlyStat(c) == IsStat(c) /\ ToNumber(c.stat.volume) <= LegisworksMaxVolume
LateStat(c) == IsStat(c) /\ ToNumber(c.stat.volume) > LegisworksMaxVolume

(* The ledger file of the citation's volume, when it is there.             *)
HasLedger == IsStat(cite0) /\ LedgerPath(cite0.stat.volume) \in DOMAIN files
Ledger == files[LedgerPath(cite0.stat.volume)]
(* The ledger entries the lookup matched for the citation.                 *)
Matched == LegisworksMatches(Ledger, cite0)

(* The start page of the ledger entry a candidate was built from.          *)
EntryPage(cand) == DigitsValue(cand.citation[3])
StartsOnPage(cand) == EntryPage(cand) = parseInt(cite0.stat.page)

SortedByPage(body) ==
  \A i, j \in 1..Len(body) : i < j => body[i].page <= body[j].page

StartBeforeSpan(cands) ==
  \A i, j \in 1..Len(cands) :
    (StartsOnPage(cands[j]) /\ ~StartsOnPage(cands[i])) => j < i

(* C1: an early (volume <= 64) statute citation that matches no entry of   *)
(* its ledger comes back from explode as the one-element list holding the  *)
(* original citation.                                                      *)
C1_NoMatchReturnsOriginal ==
  (pc = "returned" /\ EarlyStat(cite0) /\ HasLedger /\ Matched = <<>>)
    => result = <<cite0>>

(* C2: a citation that is no statute citation, or a statute citation of a  *)
(* volume above 64, comes back from explode as the one-element list        *)
(* holding it unchanged, whatever the ledger holds, and no ledger file is  *)
(* read.                                                                   *)
C2_OtherCitesPassThrough ==
  (pc # "start" /\ (~IsStat(cite0) \/ LateStat(cite0)))
    => /\ pc = "returned"
       /\ callbacks = 1
       /\ result = <<cite0>>
       /\ cite = cite0
       /\ reads = <<>>

C2_Witness ==
  /\ pc = "returned"
  /\ LateStat(cite0)
  /\ HasLedger
  /\ Matched # <<>>
  /\ result = <<cite0>>

(* C3: when two or more ledger entries match, every candidate explode      *)
(* returns carries a non-empty disambiguation field.                       *)
C3_AmbiguousCarryDisambiguation ==
  (pc = "returned" /\ EarlyStat(cite0) /\ Len(Matched) >= 2)
    => \A i \in 1..Len(result) :
         /\ "disambiguation" \in DOMAIN result[i]
         /\ result[i].disambiguation # ""
         /\ result[i].disambiguation # Undefined

C3_Witness ==
  /\ pc = "returned"
  /\ EarlyStat(cite0)
  /\ Len(Matched) >= 2
  /\ Len(result) = Len(Matched)
  /\ result[1].disambiguation # result[2].disambiguation

C5_SingleMatchNoDisambiguation ==
  (pc = "returned" /\ EarlyStat(cite0) /\ Len(Matched) = 1)
    => /\ Len(result) = 1
       /\ "disambiguation" \notin DOMAIN result[1]

C5_Witness ==
  /\ pc = "returned"
  /\ EarlyStat(cite0)
  /\ Len(Matched) = 1
  /\ Len(result) = 1
  /\ EntryPage(result[1]) = Matched[1].page

(***************************************************************************)
(* get_from_usgpo_mods: the scan of the extensions of a MODS document.     *)
(***************************************************************************)

(* String.prototype.toLowerCase on the bill types of the documents.        *)
toLowerCase(x) ==
  CASE x = "HR" -> "hr"
    [] x = "S" -> "s"
    [] OTHER -> x

ModsLawCite(elem) ==
  create_parallel_cite("law",
    [congress |-> parseInt(elem.congress),
     type |-> IF elem.isPrivate = "true" THEN "private" ELSE "public",
     number |-> parseInt(elem.number)])

ModsBillCite(elem) ==
  create_parallel_cite("us_bill",
    [is_enacted |-> TRUE,
     congress |-> parseInt(elem.congress),
     bill_type |-> toLowerCase(elem.type),
     number |-> parseInt(elem.number)])

(* Variant: the duplicate test left out.                                   *)
Seen_Never(id, seen_cites) == FALSE

(* c.law.id in seen_cites, c.us_bill.id in seen_cites                      *)
Seen(id, seen_cites) == id \in seen_cites

(* The title an extension gives the citation: shortTitle, else searchTitle.*)
ModsTitle(extension, title) ==
  IF "shortTitle" \in DOMAIN extension
  THEN (IF extension.shortTitle.kind \in {"string", "element"}
        THEN extension.shortTitle.text ELSE title)
  ELSE IF "searchTitle" \in DOMAIN extension THEN extension.searchTitle
  ELSE title

WritesTitle(extension) ==
  IF "shortTitle" \in DOMAIN extension
  THEN extension.shortTitle.kind \in {"string", "element"}
  ELSE "searchTitle" \in DOMAIN extension

(* One call of the function given to result.mods.extension.forEach.        *)
ModsExtension(extension, ctype, acc) ==
  LET refs == ctype \in {"stat", "law"}
      hasLaw == refs /\ "law" \in DOMAIN extension
      lawc == ModsLawCite(extension.law)
      lawDup == hasLaw /\ Seen(lawc.law.id, acc.seen_cites)
      acc1 == IF hasLaw /\ ~lawDup
              THEN [acc EXCEPT !.cites = Append(@, lawc),
                               !.seen_cites = @ \cup {lawc.law.id}]
              ELSE acc
      hasBill == /\ refs
                 /\ "bill" \in DOMAIN extension
                 /\ extension.bill.priority = "primary"
      billc == ModsBillCite(extension.bill)
      billDup == hasBill /\ Seen(billc.us_bill.id, acc1.seen_cites)
      acc2 == IF hasBill /\ ~billDup
              THEN [acc1 EXCEPT !.cites = Append(@, billc),
                                !.seen_cites = @ \cup {billc.us_bill.id}]
              ELSE acc1
      acc3 == [acc2 EXCEPT !.title = ModsTitle(extension, @),
                           !.wrote = @ \/ WritesTitle(extension)]
  IN IF lawDup THEN acc
     ELSE IF billDup THEN acc1
     ELSE acc3

RECURSIVE ModsScan(_, _, _)
ModsScan(extensions, ctype, acc) ==
  IF extensions = <<>> THEN acc
  ELSE ModsScan(Tail(extensions), ctype, ModsExtension(Head(extensions), ctype, acc))

(* The outcome of the parseString callback on a parsed document: the new   *)
(* citations and the title of the citation.                                *)
get_from_usgpo_mods(c, extensions) ==
  ModsScan(extensions, c.type,
           [cites |-> <<>>, seen_cites |-> {}, title |-> c.title, wrote |-> FALSE])

SetKey(f, k, v) == (k :> v) @@ f
Without(f, k) == [x \in DOMAIN f \ {k} |-> f[x]]

(* The extensions of the documents.                                        *)
LawRefs ==
  { [congress |-> Str(<<3, 8>>), number |-> Str(<<1>>), isPrivate |-> "false"],
    [congress |-> Str(<<3, 8>>), number |-> Str(<<0, 1>>), isPrivate |-> "false"],
    [congress |-> Str(<<3, 8>>), number |-> Str(<<1>>), isPrivate |-> "true"] }

BillRefs ==
  { [priority |-> "primary", congress |-> Str(<<3, 8>>), type |-> "HR", number |-> Str(<<1>>)],
    [priority |-> "other", congress |-> Str(<<3, 8>>), type |-> "S", number |-> Str(<<2>>)] }

TitleParts ==
  { [k \in {} |-> k],
    [shortTitle |-> [kind |-> "string", text |-> "Short Title"]],
    [shortTitle |-> [kind |-> "attributes", text |-> ""]],
    [searchTitle |-> "Search Title"] }

Extensions ==
  { l @@ b @@ t :
      l \in {[k \in {} |-> k]} \cup {[law |-> x] : x \in LawRefs},
      b \in {[k \in {} |-> k]} \cup {[bill |-> x] : x \in BillRefs},
      t \in TitleParts }

Documents == SeqsUpTo(Extensions, MaxExt)

ModsCites ==
  { [type |-> ty, title |-> "Original Title", citation |-> "cited as",
     type_name |-> TypeName(ty)] : ty \in {"stat", "law", "cfr"} }

InitMods ==
  /\ cite \in ModsCites
  /\ cite0 = cite
  /\ doc \in Documents
  /\ files = NoFiles
  /\ pc = "start"
  /\ reads = <<>>
  /\ result = <<>>
  /\ callbacks = 0
  /\ FetchersIdle

(* The parseString callback on the document: the title goes to the         *)
(* citation, the new citations to the callback.                            *)
ParseMods ==
  /\ pc = "start"
  /\ LET r == get_from_usgpo_mods(cite, doc)
     IN /\ cite' = [cite EXCEPT !.title = r.title]
        /\ result' = r.cites
  /\ callbacks' = callbacks + 1
  /\ pc' = "returned"
  /\ UNCHANGED <<files, cite0, reads>>
  /\ UNCHANGED fetchVars

NextMods == ParseMods

SpecMods == InitMods /\ [][NextMods]_vars

(* The id of a new citation.                                               *)
IdOf(c) == c[c.type].id

(* C10: the new citations of the metadata-document resolver hold no two    *)
(* citations of the same id; a document with two identical law references  *)
(* yields exactly one new law citation.                                    *)
C10_ModsNoDuplicateIds ==
  pc = "returned"
    => /\ \A i, j \in 1..Len(result) : IdOf(result[i]) = IdOf(result[j]) => i = j
       /\ (cite0.type \in {"stat", "law"} /\ Len(doc) = 2 /\ "law" \in DOMAIN doc[1]
             /\ "law" \in DOMAIN doc[2] /\ doc[1].law = doc[2].law)
           => Cardinality({i \in 1..Len(result) : result[i].type = "law"}) = 1

C10_Witness ==
  /\ pc = "returned"
  /\ cite0.type = "stat"
  /\ Len(doc) = 2
  /\ "law" \in DOMAIN doc[1]
  /\ "law" \in DOMAIN doc[2]
  /\ doc[1].law = doc[2].law
  /\ Len(result) = 1
  /\ result[1].type = "law"

(***************************************************************************)
(* exports.add_parallel_citations and the fetchers.                        *)
(***************************************************************************)
HasKey(obj, k) == k \in DOMAIN obj

(* The fetcher async.forEachOf calls next: the first one not yet called.   *)
NextType ==
  FetcherOrder[CHOOSE i \in 1..Len(FetcherOrder) :
                 /\ tasks[FetcherOrder[i]] = "pending"
                 /\ \A j \in 1..(i - 1) : tasks[FetcherOrder[j]] # "pending"]

Iterating == pc = "iterating" /\ \E t \in FetcherTypes : tasks[t] = "pending"

(* Responses are handled once the synchronous loop of forEachOf is over,   *)
(* whether it ran to its end or was left by an exception.                  *)
LoopOver == pc \in {"waiting", "thrown"}

(* Variant: the final callback fired by the first fetcher that completes.  *)
Joined_FirstDone(tk) == \E u \in FetcherTypes : tk[u] = "done"

(* async.forEachOf: every iteratee has called its callback.                *)
Joined(tk) == \A u \in FetcherTypes : tk[u] \in {"done", "skipped"}

(* Fetcher t moves to position st; with st = "done" it has called its      *)
(* callback with new_cites, with st = "skipped" the iteratee has called    *)
(* callback() for an absent sub-type. The last callback runs the final     *)
(* function of forEachOf, which hands new_citations to the caller.         *)
Finish(t, st, new_cites) ==
  LET tk == [tasks EXCEPT ![t] = st]
      nc == new_citations \o new_cites
  IN /\ tasks' = tk
     /\ new_citations' = nc
     /\ returned' = IF st = "done" THEN [returned EXCEPT ![t] = new_cites] ELSE returned
     /\ IF st \in {"done", "skipped"} /\ Joined(tk)
        THEN /\ callbacks' = callbacks + 1
             /\ result' = nc
             /\ pc' = "returned"
        ELSE /\ UNCHANGED <<callbacks, result>>
             /\ pc' = IF pc = "iterating" /\ \A u \in FetcherTypes : tk[u] # "pending"
                      THEN "waiting" ELSE pc

Wrote(t, fields) ==
  writers' = [f \in CiteFields |-> IF f \in fields THEN writers[f] \cup {t} ELSE writers[f]]

(* request.get called by fetcher t for the resource named to.              *)
Requested(t, to) == requests' = Append(requests, [by |-> t, to |-> to])

(* The callback of a request of fetcher t is entered with response.        *)
Responded(t, response) == responses' = [responses EXCEPT ![t] = response]

(* if (!(cite_type in cite)) { callback(); return; }                       *)
SkipAbsent ==
  /\ Iterating
  /\ ~HasKey(cite, NextType)
  /\ Finish(NextType, "skipped", <<>>)
  /\ UNCHANGED <<files, cite, cite0, reads, env, writers, m, doc>>
  /\ UNCHANGED <<requests, responses, first>>

(* fetchers.stat, fetchers.cfr, fetchers.fedreg: the MODS file, if linked. *)
FetchMods(t) ==
  /\ Iterating
  /\ NextType = t
  /\ HasKey(cite, t)
  /\ IF HasKey(cite[t].links, "usgpo")
     THEN Finish(t, "mods", <<>>) /\ Requested(t, "mods")
     ELSE Finish(t, "done", <<>>) /\ UNCHANGED requests
  /\ UNCHANGED <<files, cite, cite0, reads, env, writers, m, doc>>
  /\ UNCHANGED <<responses, first>>

FetchStat == FetchMods("stat")
FetchCfr == FetchMods("cfr")
FetchFedreg == FetchMods("fedreg")

(* The table of get_from_legisworks_publaw; of the two entries for         *)
(* congress 75 the object literal keeps the later one.                     *)
volume_map ==
  [c \in 60..81 |->
     IF c <= 74 THEN <<c - 25>>
     ELSE IF c = 75 THEN <<51, 52>>
     ELSE <<2 * c - 99, 2 * c - 98>>]

PublawItemMatches(item, law) ==
  /\ LooseEq(Str(Digits(item.congress)), law.congress)
  /\ LooseEq(Str(Digits(item.number)), law.number)
  /\ ~(law.type = "public" /\ item.type # "publaw")
  /\ law.type # "private"

RECURSIVE PublawItems(_, _)
(* The rows of the listed volumes that the law matches, in order.          *)
PublawItems(volumes, law) ==
  IF volumes = <<>> THEN <<>>
  ELSE LET body == files[LedgerPath(Num(Head(volumes)))]
           hits == SelectSeq(body, LAMBDA item : PublawItemMatches(item, law))
       IN hits \o PublawItems(Tail(volumes), law)

(* The volumes read until a file is missing (readFileSync throws there).   *)
RECURSIVE PublawReads(_)
PublawReads(volumes) ==
  IF volumes = <<>> THEN <<>>
  ELSE IF LedgerPath(Num(Head(volumes))) \in DOMAIN files
       THEN <<LedgerPath(Num(Head(volumes)))>> \o PublawReads(Tail(volumes))
       ELSE <<LedgerPath(Num(Head(volumes)))>>

RECURSIVE PublawVolumesRead(_)
(* The listed volumes whose files are read before one is missing.          *)
PublawVolumesRead(volumes) ==
  IF volumes = <<>> \/ LedgerPath(Num(Head(volumes))) \notin DOMAIN files THEN <<>>
  ELSE <<Head(volumes)>> \o PublawVolumesRead(Tail(volumes))

InPublawRange(law) == ToNumber(law.congress) >= 60 /\ ToNumber(law.congress) <= 81

(* Variant: the ledger of the historical congresses looked up first.      *)
LawStrategy_LedgerFirst(law) ==
  IF InPublawRange(law) THEN "ledger"
  ELSE IF HasKey(law.links, "usgpo") THEN "mods"
  ELSE IF HasKey(law.links, "govtrack") /\ HasKey(law.links.govtrack, "landing")
  THEN "govtrack"
  ELSE "none"

(* The if / else-if chain of fetchers.law.                                 *)
LawStrategy(law) ==
  IF HasKey(law.links, "usgpo") THEN "mods"
  ELSE IF InPublawRange(law) THEN "ledger"
  ELSE IF HasKey(law.links, "govtrack") /\ HasKey(law.links.govtrack, "landing")
  THEN "govtrack"
  ELSE "none"

(* fetchers.law *)
FetchLaw ==
  /\ Iterating
  /\ NextType = "law"
  /\ HasKey(cite, "law")
  /\ LET law == cite.law
         volumes == volume_map[ToNumber(law.congress)]
         items == PublawItems(PublawVolumesRead(volumes), law)
         last == items[Len(items)]
         strategy == LawStrategy(law)
     IN IF strategy = "mods"
        THEN /\ Finish("law", "mods", <<>>)
             /\ Requested("law", "mods")
             /\ UNCHANGED <<cite, reads, writers>>
        ELSE IF strategy = "ledger"
        THEN \* get_from_legisworks_publaw, synchronous
             /\ UNCHANGED requests
             /\ reads' = reads \o PublawReads(volumes)
             /\ cite' = IF items = <<>> THEN cite
                        ELSE [cite EXCEPT
                                !.title = TitleOrTopic(last),
                                !.law.links = SetKey(@, "legisworks",
                                                     LegisworksLink(last, TRUE))]
             /\ IF items = <<>> THEN UNCHANGED writers
                ELSE Wrote("law", {"title", "law.links.legisworks"})
             /\ IF PublawVolumesRead(volumes) # volumes
                THEN \* the exception of readFileSync leaves forEachOf
                     /\ tasks' = [tasks EXCEPT !["law"] = "thrown"]
                     /\ pc' = "thrown"
                     /\ UNCHANGED <<new_citations, returned, callbacks, result>>
                ELSE Finish("law", "done",
                       [i \in 1..Len(items) |->
                          create_parallel_cite("stat",
                            [volume |-> Num(items[i].volume), page |-> Num(items[i].page)])])
        ELSE IF strategy = "govtrack"
        THEN /\ Finish("law", "govtrack", <<>>)
             /\ Requested("law", "govtrack")
             /\ UNCHANGED <<cite, reads, writers>>
        ELSE /\ Finish("law", "done", <<>>)
             /\ UNCHANGED <<cite, reads, writers, requests>>
  /\ UNCHANGED <<files, cite0, env, m, doc, responses, first>>

(* fetchers.usc *)
FetchUsc ==
  /\ Iterating
  /\ NextType = "usc"
  /\ HasKey(cite, "usc")
  /\ IF HasKey(cite.usc, "links") /\ HasKey(cite.usc.links, "house")
     THEN Finish("usc", "request", <<>>) /\ Requested("usc", "house")
     ELSE Finish("usc", "done", <<>>) /\ UNCHANGED requests
  /\ UNCHANGED <<files, cite, cite0, reads, env, writers, m, doc>>
  /\ UNCHANGED <<responses, first>>

(* Variant: the search made without looking for the credentials.          *)
CanSearch_NoCredentials(c, e) == HasKey(c.reporter.links, "courtlistener")

(* if (link && env.courtlistener)                                          *)
CanSearch(c, e) ==
  HasKey(c.reporter.links, "courtlistener") /\ HasKey(e, "courtlistener")

(* fetchers.reporter: get_from_courtlistener_search *)
FetchReporter ==
  /\ Iterating
  /\ NextType = "reporter"
  /\ HasKey(cite, "reporter")
  /\ IF CanSearch(cite, env)
     THEN Finish("reporter", "search", <<>>) /\ Requested("reporter", "courtlistener")
     ELSE Finish("reporter", "done", <<>>) /\ UNCHANGED requests
  /\ UNCHANGED <<files, cite, cite0, reads, env, writers, m, doc>>
  /\ UNCHANGED <<responses, first>>

(***************************************************************************)
(* The handlers of the responses.                                          *)
(***************************************************************************)
(* The documents the MODS requests of the fetchers come back with.         *)
FetchedDocuments ==
  { <<[law |-> [congress |-> Str(<<3, 8>>), number |-> Str(<<1>>), isPrivate |-> "false"],
       shortTitle |-> [kind |-> "string", text |-> "Short Title"]]>>,
    <<[bill |-> [priority |-> "primary", congress |-> Str(<<3, 8>>), type |-> "HR",
                 number |-> Str(<<1>>)],
       searchTitle |-> "Search Title"]>>,
    <<>> }

(* What a MODS request can come back with: no body, a body xml2js cannot   *)
(* parse, or a document.                                                   *)
ModsResponses ==
  {[kind |-> "error"], [kind |-> "malformed"]}
  \cup {[kind |-> "document", extensions |-> d] : d \in FetchedDocuments}

(* get_from_usgpo_mods: without a parsed result the list stays empty.      *)
ModsResponse(t) ==
  /\ LoopOver
  /\ tasks[t] = "mods"
  /\ \E response \in ModsResponses :
       /\ Responded(t, response)
       /\ IF response.kind = "document"
          THEN LET r == get_from_usgpo_mods(cite, response.extensions)
               IN /\ cite' = [cite EXCEPT !.title = r.title]
                  /\ IF r.wrote THEN Wrote(t, {"title"}) ELSE UNCHANGED writers
                  /\ Finish(t, "done", r.cites)
          ELSE /\ UNCHANGED <<cite, writers>>
               /\ Finish(t, "done", <<>>)
  /\ UNCHANGED <<files, cite0, reads, env, m, doc, requests, first>>

StatModsResponse == ModsResponse("stat")
LawModsResponse == ModsResponse("law")
CfrModsResponse == ModsResponse("cfr")
FedregModsResponse == ModsResponse("fedreg")

(* What the request of fetchers.usc comes back with: no response at all,   *)
(* or the status of the page; redirects are not followed, and OLRC answers *)
(* 302 for a section that does not exist.                                  *)
HouseResponses ==
  {[kind |-> "error"]}
  \cup {[kind |-> "response", statusCode |-> sc] : sc \in {200, 302, 404}}

(* Variant: only a page that is not found counts as a failed link.         *)
LinkFails_NotFoundOnly(response) == response.statusCode = 404

(* if (response.statusCode != 200)                                         *)
LinkFails(response) == response.statusCode # 200

(* The callback of request.get in fetchers.usc. On a transport failure     *)
(* response is undefined and response.statusCode throws.                   *)
UscResponse ==
  /\ LoopOver
  /\ tasks["usc"] = "request"
  /\ \E response \in HouseResponses :
       /\ Responded("usc", response)
       /\ IF response.kind = "error"
          THEN /\ tasks' = [tasks EXCEPT !["usc"] = "thrown"]
               /\ UNCHANGED <<cite, writers, new_citations, returned, callbacks,
                              result, pc>>
          ELSE IF LinkFails(response)
          THEN /\ cite' = [cite EXCEPT !.usc = Without(@, "links")]
               /\ Wrote("usc", {"usc.links"})
               /\ Finish("usc", "done", <<>>)
          ELSE /\ UNCHANGED <<cite, writers>>
               /\ Finish("usc", "done", <<>>)
  /\ UNCHANGED <<files, cite0, reads, env, m, doc, requests, first>>

(* The addresses the landing-page request can end at after its redirects:  *)
(* the search page itself, the page of a bill, or a page below a bill.     *)
FinalAddresses ==
  {[under |-> "/search", rest |-> ""]}
  \cup {[under |-> "/congress/bills", congress |-> 111, bill_type |-> "hr",
         number |-> 1, rest |-> r] : r \in {"", "/text"}}

(* What the landing-page request comes back with.                          *)
LandingResponses ==
  {[kind |-> "error"]}
  \cup {[kind |-> "response", href |-> a] : a \in FinalAddresses}

(* Variant: every address below the bills taken for the page of a bill.    *)
BillAddressMatch_AnyRest(href) ==
  IF href.under = "/congress/bills"
  THEN [matched |-> TRUE, congress |-> href.congress, bill_type |-> href.bill_type,
        number |-> href.number]
  ELSE NoMatch

(* /^https:\/\/www.govtrack.us\/congress\/bills\/(\d+)\/([a-z]+)(\d+)$/.exec(url) *)
BillAddressMatch(href) ==
  IF href.under = "/congress/bills" /\ href.rest = ""
  THEN [matched |-> TRUE, congress |-> href.congress, bill_type |-> href.bill_type,
        number |-> href.number]
  ELSE NoMatch

(* The callback of the first request.get of get_from_govtrack_search. On a *)
(* transport failure response is undefined and response.request throws.    *)
GovtrackResponse ==
  /\ LoopOver
  /\ tasks["law"] = "govtrack"
  /\ \E response \in LandingResponses :
       /\ Responded("law", response)
       /\ IF response.kind = "error"
          THEN /\ tasks' = [tasks EXCEPT !["law"] = "thrown"]
               /\ UNCHANGED <<m, new_citations, returned, callbacks, result, pc,
                              requests>>
          ELSE IF ~BillAddressMatch(response.href).matched
          THEN /\ Finish("law", "done", <<>>)
               /\ UNCHANGED <<m, requests>>
          ELSE /\ m' = BillAddressMatch(response.href)
               /\ Requested("law", "bill")
               /\ Finish("law", "bill", <<>>)
  /\ UNCHANGED <<files, cite, cite0, reads, env, writers, doc, first>>

BillRecords ==
  {[congress |-> Str(<<1, 1, 1>>), number |-> Str(<<1>>),
    title |-> "H.R. 1: A Bill", title_without_number |-> "A Bill"]}

(* What the request of the bill record comes back with: no body, a body    *)
(* JSON.parse rejects, the JSON text null, or a bill.                      *)
BillResponses ==
  {[kind |-> "error"], [kind |-> "malformed"], [kind |-> "null"]}
  \cup {[kind |-> "bill", bill |-> b] : b \in BillRecords}

(* The callback of the second request.get of get_from_govtrack_search.     *)
GovtrackBillResponse ==
  /\ LoopOver
  /\ tasks["law"] = "bill"
  /\ \E response \in BillResponses :
       /\ Responded("law", response)
       /\ IF response.kind = "bill"
          THEN LET bill == response.bill
               IN /\ cite' = [cite EXCEPT !.title = bill.title_without_number,
                                          !.law.links = Without(@, "govtrack")]
                  /\ Wrote("law", {"title", "law.links.govtrack"})
                  /\ Finish("law", "done",
                       <<create_parallel_cite("us_bill",
                           [is_enacted |-> TRUE,
                            congress |-> parseInt(bill.congress),
                            bill_type |-> m.bill_type,
                            number |-> parseInt(bill.number),
                            title |-> bill.title])>>)
          ELSE \* JSON.parse or the read of the title throws before anything
               \* is assigned; the catch swallows it
               /\ UNCHANGED <<cite, writers>>
               /\ Finish("law", "done", <<>>)
  /\ UNCHANGED <<files, cite0, reads, env, m, doc, requests, first>>

Cases ==
  {[caseName |-> "Roe v. Wade", court |-> "Supreme Court",
    citation |-> <<"410 U.S. 113">>, absolute_url |-> "/opinion/108713/"],
   [caseName |-> "Doe v. Bolton", court |-> "Supreme Court",
    citation |-> <<"410 U.S. 179">>, absolute_url |-> "/opinion/108714/"],
   \* a result without its citation list
   [caseName |-> "In re Gault", court |-> "Supreme Court",
    absolute_url |-> "/opinion/107439/"]}

SearchResponses ==
  {[kind |-> "error"], [kind |-> "malformed"]}
  \cup {[kind |-> "results", results |-> r] : r \in SeqsUpTo(Cases, 2)}

(* Variant: the first result used whenever there is one.                   *)
IsSingleResult_First(cases) == Len(cases) >= 1

(* else if (cases.length == 1)                                             *)
IsSingleResult(cases) == Len(cases) = 1

(* The callback of request.get in get_from_courtlistener_search.           *)
CourtlistenerResponse ==
  /\ LoopOver
  /\ tasks["reporter"] = "search"
  /\ \E response \in SearchResponses :
       /\ Responded("reporter", response)
       /\ IF response.kind = "results" /\ IsSingleResult(response.results)
          THEN LET case == response.results[1]
               IN IF HasKey(case, "citation")
                  THEN /\ cite' = [cite EXCEPT
                            !.title = case.caseName,
                            !.type_name = case.court,
                            !.citation = case.citation[1],
                            !.reporter.links = SetKey(@, "courtlistener",
                               [source |-> [name |-> "Court Listener",
                                            abbreviation |-> "CL",
                                            authoritative |-> FALSE],
                                landing |-> case.absolute_url])]
                       /\ Wrote("reporter", {"title", "type_name", "citation",
                                             "reporter.links.courtlistener"})
                       /\ Finish("reporter", "done", <<>>)
                  ELSE \* cases[0].citation[0] throws after two assignments
                       /\ cite' = [cite EXCEPT !.title = case.caseName,
                                               !.type_name = case.court]
                       /\ Wrote("reporter", {"title", "type_name"})
                       /\ Finish("reporter", "done", <<>>)
          ELSE /\ UNCHANGED <<cite, writers>>
               /\ Finish("reporter", "done", <<>>)
  /\ UNCHANGED <<files, cite0, reads, env, m, doc, requests, first>>

(***************************************************************************)
(* The citations and the surroundings add_parallel_citations is called     *)
(* with.                                                                   *)
(***************************************************************************)
UsgpoLinks == [usgpo |-> [mods |-> "https://www.govinfo.gov/metadata/mods.xml"]]
GovtrackLinks == [govtrack |-> [landing |-> "https://www.govtrack.us/search"]]
GovtrackNoLanding == [govtrack |-> [html |-> "https://www.govtrack.us/congress/bills"]]

SubCitations(t) ==
  CASE t = "stat" ->
         {[volume |-> Num(100), page |-> Num(1), links |-> l] : l \in {NoLinks, UsgpoLinks}}
    [] t = "law" ->
         {[congress |-> Num(c), type |-> "public", number |-> Num(1), links |-> u @@ g] :
            c \in {59, 60, 81, 82}, u \in {NoLinks, UsgpoLinks},
            g \in {NoLinks, GovtrackLinks, GovtrackNoLanding}}
    [] t = "usc" ->
         {[title |-> "26", section |-> "1"],
          [title |-> "26", section |-> "1",
           links |-> [house |-> [html |-> "https://uscode.house.gov/view.xhtml"],
                      usgpo |-> [pdf |-> "https://www.govinfo.gov/link/uscode/26/1"]]]}
    [] t = "cfr" ->
         {[title |-> "40", part |-> "1", links |-> l] : l \in {NoLinks, UsgpoLinks}}
    [] t = "fedreg" ->
         {[volume |-> Num(80), page |-> Num(1), links |-> l] : l \in {NoLinks, UsgpoLinks}}
    [] t = "reporter" ->
         {[volume |-> Num(410), page |-> Num(113), links |-> l] :
            l \in {NoLinks,
                   [courtlistener |-> [landing |-> "https://www.courtlistener.com/?q=410"]]}}

BaseKeys == {"type", "title", "citation", "type_name"}

(* The citations with the sub-types of P, each with one of its forms.      *)
CitesWith(P) ==
  { [k \in BaseKeys \cup P |->
       CASE k = "type" -> ty
         [] k = "title" -> "Original Title"
         [] k = "citation" -> "as cited"
         [] k = "type_name" -> TypeName(ty)
         [] OTHER -> f[k]] :
      ty \in (IF P = {} THEN {"other"} ELSE P),
      f \in {g \in [P -> UNION {SubCitations(t) : t \in P}] :
               \A t \in P : g[t] \in SubCitations(t)} }

ParallelCites ==
  UNION { CitesWith(P) : P \in {Q \in SUBSET FetcherTypes : Cardinality(Q) <= MaxSubTypes} }

PublawRow(volume, number) ==
  [volume |-> volume, page |-> 1, npages |-> 0, type |-> "publaw", congress |-> 81,
   number |-> number, title |-> "An Act of the 81st", topic |-> "",
   file |-> <<volume, 1>>, citation |-> "Chapter 1"]

(* The ledger directory: empty, holding the first volume of the congress   *)
(* only, or holding both, with or without a row of the law.                *)
LedgerDirectories ==
  { NoFiles,
    LedgerPath(Num(63)) :> <<PublawRow(63, 1)>>,
    (LedgerPath(Num(63)) :> <<PublawRow(63, 2)>>)
      @@ (LedgerPath(Num(64)) :> <<PublawRow(64, 1)>>),
    (LedgerPath(Num(63)) :> <<PublawRow(63, 2)>>)
      @@ (LedgerPath(Num(64)) :> <<>>) }

Environments ==
  { [k \in {} |-> k], [courtlistener |-> [username |-> "user", password |-> "secret"]] }

ReadsLedger(c) ==
  /\ HasKey(c, "law")
  /\ ~HasKey(c.law.links, "usgpo")
  /\ InPublawRange(c.law)

Init ==
  /\ cite \in ParallelCites
  /\ cite0 = cite
  /\ files \in (IF ReadsLedger(cite) THEN LedgerDirectories ELSE {NoFiles})
  /\ env \in (IF HasKey(cite, "reporter") THEN Environments ELSE {[k \in {} |-> k]})
  /\ pc = "iterating"
  /\ reads = <<>>
  /\ result = <<>>
  /\ callbacks = 0
  /\ tasks = [t \in FetcherTypes |-> "pending"]
  /\ new_citations = <<>>
  /\ returned = [t \in FetcherTypes |-> <<>>]
  /\ writers = [f \in CiteFields |-> {}]
  /\ m = NoMatch
  /\ doc = NoDoc
  /\ requests = <<>>
  /\ responses = [t \in FetcherTypes |-> NoResponse]
  /\ first = NoRun

(* The caller hands the citation, as the call left it, to                 *)
(* add_parallel_citations once more: the locals of the call start afresh.  *)
CallAgain ==
  /\ pc = "returned"
  /\ ~first.called
  /\ first' = [called |-> TRUE, cite |-> cite0, result |-> result]
  /\ cite0' = cite
  /\ pc' = "iterating"
  /\ reads' = <<>>
  /\ result' = <<>>
  /\ callbacks' = 0
  /\ tasks' = [t \in FetcherTypes |-> "pending"]
  /\ new_citations' = <<>>
  /\ returned' = [t \in FetcherTypes |-> <<>>]
  /\ writers' = [f \in CiteFields |-> {}]
  /\ m' = NoMatch
  /\ requests' = <<>>
  /\ responses' = [t \in FetcherTypes |-> NoResponse]
  /\ UNCHANGED <<files, cite, env, doc>>

Next ==
  \/ SkipAbsent
  \/ FetchStat
  \/ FetchLaw
  \/ FetchUsc
  \/ FetchCfr
  \/ FetchFedreg
  \/ FetchReporter
  \/ StatModsResponse
  \/ LawModsResponse
  \/ CfrModsResponse
  \/ FedregModsResponse
  \/ UscResponse
  \/ GovtrackResponse
  \/ GovtrackBillResponse
  \/ CourtlistenerResponse

Spec == Init /\ [][Next]_vars

(* Two calls in sequence on a citation of one sub-type, the form in which  *)
(* the citation library hands citations out.                               *)
InitTwice ==
  /\ Init
  /\ \E t \in FetcherTypes : cite \in CitesWith({t})

NextTwice == Next \/ CallAgain

SpecTwice == InitTwice /\ [][NextTwice]_vars

(***************************************************************************)
(* Properties of add_parallel_citations.                                   *)
(***************************************************************************)
(* The fetchers that apply to the citation.                                *)
Applicable == {t \in FetcherTypes : HasKey(cite0, t)}

(* The lists the fetchers passed to their callbacks, in the order in which *)
(* forEachOf called the fetchers.                                          *)
AllReturned ==
  returned["stat"] \o returned["law"] \o returned["usc"]
    \o returned["cfr"] \o returned["fedreg"] \o returned["reporter"]

Occurrences(x, s) == Cardinality({i \in 1..Len(s) : s[i] = x})

SameItems(s, t) ==
  /\ Len(s) = Len(t)
  /\ \A i \in 1..Len(s) : Occurrences(s[i], s) = Occurrences(s[i], t)

(* C6: a fetcher that meets a network failure, a malformed response or a   *)
(* missing ledger file lets no exception escape: no handler and no call of *)
(* add_parallel_citations ends in a throw.                                 *)
C6_NoExceptionEscapes ==
  /\ pc # "thrown"
  /\ \A t \in FetcherTypes : tasks[t] # "thrown"

C8_InvocationOrder ==
  pc = "returned" => result = AllReturned

(* C9: no field of the shared citation is written by two fetchers of one   *)
(* call.                                                                   *)
C9_DisjointWrites ==
  \A f \in CiteFields : Cardinality(writers[f]) <= 1

(* C11: once the usc fetcher has handled a response with a status other    *)
(* than 200 for the citation's house link, the citation no longer carries  *)
(* that link and the fetcher has returned no new citations.                *)
C11_FailedLinkRemoved ==
  ( /\ tasks["usc"] = "done"
    /\ responses["usc"].kind = "response"
    /\ responses["usc"].statusCode # 200 )
  => /\ ~(HasKey(cite.usc, "links") /\ HasKey(cite.usc.links, "house"))
     /\ returned["usc"] = <<>>

C11_Witness ==
  /\ tasks["usc"] = "done"
  /\ responses["usc"].kind = "response"
  /\ responses["usc"].statusCode = 302
  /\ HasKey(cite0.usc, "links") /\ HasKey(cite0.usc.links, "house")
  /\ ~HasKey(cite.usc, "links")

LinksOf(c, t) ==
  IF t = "usc" /\ ~HasKey(c.usc, "links") THEN NoLinks ELSE c[t].links

(* A citation whose sub-citations are linked, and to the authoritative     *)
(* sources only: none of the govtrack landing, courtlistener search and    *)
(* legisworks links is left.                                               *)
FullyResolved(c) ==
  \A t \in FetcherTypes :
    HasKey(c, t) => /\ LinksOf(c, t) # NoLinks
                    /\ DOMAIN LinksOf(c, t) \subseteq {"usgpo", "house"}

(* A citation that gives no fetcher anything to look up in surroundings e. *)
NothingToFetch(c, e) ==
  /\ \A t \in {"stat", "law", "cfr", "fedreg"} :
       HasKey(c, t) => ~HasKey(c[t].links, "usgpo")
  /\ HasKey(c, "law") =>
       /\ ToNumber(c.law.congress) < 60 \/ ToNumber(c.law.congress) > 81
       /\ ~(HasKey(c.law.links, "govtrack") /\ HasKey(c.law.links.govtrack, "landing"))
  /\ HasKey(c, "usc") => ~HasKey(LinksOf(c, "usc"), "house")
  /\ HasKey(c, "reporter") =>
       ~(HasKey(c.reporter.links, "courtlistener") /\ HasKey(e, "courtlistener"))

C14_MissingLedgerThrows ==
  (pc # "start" /\ EarlyStat(cite0) /\ ~HasLedger)
  => /\ pc = "thrown"
     /\ callbacks = 0
     /\ result = <<>>

C14_Witness ==
  /\ pc = "thrown"
  /\ EarlyStat(cite0)
  /\ ~HasLedger
  /\ reads = <<LedgerPath(cite0.stat.volume)>>
  /\ callbacks = 0

(* The match of the claim: the volume and the page of the citation taken   *)
(* as numbers.                                                             *)
NumericMatch(item, c) ==
  LET page == ToNumber(c.stat.page)
  IN /\ item.volume = ToNumber(c.stat.volume)
     /\ \/ item.page = page
        \/ item.npages # 0 /\ item.page <= page /\ page < item.page + item.npages

(* C15: for a citation of a volume up to 64, explode hands over one        *)
(* candidate for every row of the ledger of that volume that starts on the *)
(* cited page or spans over it, the page compared as a number also when    *)
(* the citation gives it as text, and no candidate for any other row.      *)
C15_NumericPageMatch ==
  (pc = "returned" /\ EarlyStat(cite0))
  => LET want == SelectSeq(Ledger, LAMBDA item : NumericMatch(item, cite0))
     IN /\ Len(result) = Len(want)
        /\ \A i \in 1..Len(result) :
             EntryPage(result[i]) = want[Len(want) + 1 - i].page

(* C16: every candidate explode hands over for a citation of a volume up   *)
(* to 64 is a citation of type stat; when its ledger row is a public law   *)
(* of congress 38 or later it carries exactly one parallel citation, a     *)
(* public law of the congress and number of the row with the title of the  *)
(* candidate, and otherwise it has no parallel_citations field.            *)
C16_CandidateShape ==
  (pc = "returned" /\ EarlyStat(cite0))
  => /\ Len(result) = Len(Matched)
     /\ \A i \in 1..Len(result) :
          LET cand == result[i]
              row == Matched[Len(Matched) + 1 - i]
          IN /\ cand.type = "stat"
             /\ HasKey(cand, "stat")
             /\ IF row.congress >= PublawMinCongress /\ row.type = "publaw"
                THEN /\ HasKey(cand, "parallel_citations")
                     /\ Len(cand.parallel_citations) = 1
                     /\ LET par == cand.parallel_citations[1]
                        IN /\ par.type = "law"
                           /\ par.law.congress = row.congress
                           /\ par.law.number = row.number
                           /\ par.law.type = "public"
                           /\ par.title = cand.title
                           /\ ~HasKey(par, "parallel_citations")
                ELSE ~HasKey(cand, "parallel_citations")

C16_Witness ==
  /\ pc = "returned"
  /\ EarlyStat(cite0)
  /\ Len(result) = 2
  /\ HasKey(result[1], "parallel_citations")
  /\ result[1].parallel_citations[1].title = result[1].title
  /\ ~HasKey(result[2], "parallel_citations")
  /\ Matched[1].type = "publaw"

(* The strategies the law fetcher has run in this call: the resources it   *)
(* has requested, the bill record counted with the landing page it follows *)
(* from, and the ledger if it was read.                                    *)
StrategiesRun ==
  {IF requests[i].to = "bill" THEN "govtrack" ELSE requests[i].to :
     i \in {j \in 1..Len(requests) : requests[j].by = "law"}}
  \cup (IF reads # <<>> THEN {"ledger"} ELSE {})

(* The strategy the claim assigns to a law sub-citation.                   *)
FirstApplicable(law) ==
  IF HasKey(law.links, "usgpo") THEN {"mods"}
  ELSE IF ToNumber(law.congress) >= 60 /\ ToNumber(law.congress) <= 81 THEN {"ledger"}
  ELSE IF HasKey(law.links, "govtrack") /\ HasKey(law.links.govtrack, "landing")
  THEN {"govtrack"}
  ELSE {}

BillRequested ==
  \E i \in 1..Len(requests) : requests[i] = [by |-> "law", to |-> "bill"]

(* C18: in get_from_govtrack_search the bill record is requested only in   *)
(* the step that handles the response of the landing-page request, and     *)
(* only when that request ended at the page of a bill; when the resolver   *)
(* calls back, the govtrack link of the law is gone exactly if a bill      *)
(* citation is handed over, and with an empty list the citation is as it   *)
(* was before.                                                             *)
C18_LandingPageResolver ==
  [][ /\ (~BillRequested /\ BillRequested')
         => /\ tasks["law"] = "govtrack"
            /\ responses'["law"].kind = "response"
            /\ responses'["law"].href.under = "/congress/bills"
            /\ responses'["law"].href.rest = ""
      /\ (tasks["law"] \in {"govtrack", "bill"} /\ tasks'["law"] = "done")
         => /\ ~HasKey(cite'.law.links, "govtrack")
               <=> (\E i \in 1..Len(returned'["law"]) :
                      returned'["law"][i].type = "us_bill")
            /\ returned'["law"] = <<>> => cite' = cite ]_vars

C18_Witness ==
  /\ HasKey(cite0, "law")
  /\ HasKey(cite0.law.links, "govtrack")
  /\ BillRequested
  /\ tasks["law"] = "done"
  /\ Len(returned["law"]) = 1
  /\ returned["law"][1].type = "us_bill"
  /\ ~HasKey(cite.law.links, "govtrack")

(* A request of some fetcher is outstanding.                               *)
InFlight ==
  \E t \in FetcherTypes : tasks[t] \in {"mods", "request", "govtrack", "bill", "search"}

(* C19: every call of add_parallel_citations comes to invoke its callback, *)
(* whatever its requests come back with: once the loop over the fetchers   *)
(* is over and every response has been handled, each applicable fetcher    *)
(* has called back once and the callback of the call has been invoked.     *)
C19_EveryCallReturns ==
  (pc # "iterating" /\ ~InFlight)
  => /\ \A t \in Applicable : tasks[t] = "done"
     /\ callbacks = 1

====
